---- MODULE Spec2Model ----
(***************************************************************************)
(* Model of AMB82Service (amb82_ble_service.py): the claim/hold lease kept *)
(* by the BLE wrapper, its token validity check, the status notification   *)
(* handler and the asyncio interleaving of callers at transport awaits.    *)
(***************************************************************************)
EXTENDS Integers, Sequences, FiniteSets, TLC

(***************************************************************************)
(* Bounds of the model.                                                    *)
(***************************************************************************)
NumCallers == 2
MaxTime == 8

(***************************************************************************)
(* Program constants.                                                      *)
(***************************************************************************)
TOKEN_EXPIRY_DURATION == 3
TOKEN_LENGTH == 8

\* time.time() at construction, in seconds since the model's epoch; it is far
\* later than the initial last_hold_time of 0.
StartTime == 4

\* Names bound at module level of amb82_ble_service.py.
ModuleGlobals ==
    {"AMB82_SERVICE_UUID", "CLAIM_CHAR_UUID", "HOLD_CHAR_UUID",
     "SSID_CONTROL_CHAR_UUID", "CURRENT_SSID_CHAR_UUID", "WIPE_CHAR_UUID",
     "STATUS_CHAR_UUID", "DEVICE_NAME", "TOKEN_EXPIRY_DURATION",
     "TOKEN_LENGTH", "AMB82Service", "main"}

Callers == 1..NumCallers

(***************************************************************************)
(* Python values.  A str is a sequence of one-character strings, bytes is  *)
(* a sequence of integers, and None is a value of its own.                 *)
(***************************************************************************)
None == [isNone |-> TRUE, s |-> <<>>]
Str(s) == [isNone |-> FALSE, s |-> s]

\* bool(v) of a str-or-None value: None and "" are falsy.
Truthy(v) == (~v.isNone) /\ Len(v.s) > 0

\* The characters the model uses, with their code points.
Ord ==
    [c \in {" ", ",", "/", "1", "2", "3", "8", "9", "A", "B", "C", "E", "I",
            "N", "R", "X", "Y", "Z", "a", "b", "d", "e", "i", "l", "n", "p",
            "r", "s", "t", "u", "x", "y", "z", "\n"} |->
        CASE c = " " -> 32 [] c = "," -> 44 [] c = "1" -> 49 [] c = "2" -> 50
          [] c = "/" -> 47 [] c = "I" -> 73 [] c = "N" -> 78 [] c = "l" -> 108
          [] c = "3" -> 51 [] c = "8" -> 56 [] c = "9" -> 57 [] c = "A" -> 65
          [] c = "B" -> 66 [] c = "C" -> 67 [] c = "E" -> 69 [] c = "R" -> 82
          [] c = "X" -> 88 [] c = "Y" -> 89 [] c = "Z" -> 90 [] c = "a" -> 97
          [] c = "b" -> 98 [] c = "d" -> 100 [] c = "e" -> 101
          [] c = "i" -> 105 [] c = "n" -> 110 [] c = "p" -> 112
          [] c = "r" -> 114 [] c = "s" -> 115 [] c = "t" -> 116
          [] c = "u" -> 117 [] c = "x" -> 120 [] c = "y" -> 121
          [] c = "z" -> 122 [] c = "\n" -> 10]

Chr(n) == CHOOSE c \in DOMAIN Ord : Ord[c] = n

\* str.encode('utf-8') on the (ASCII) characters of the model.
Encode(s) == [i \in 1..Len(s) |-> Ord[s[i]]]

\* bytes.decode('utf-8'): the byte 0xFF occurs in no UTF-8 sequence and makes
\* decode raise UnicodeDecodeError; the other bytes of the model are ASCII.
Decodable(b) == \A i \in 1..Len(b) : b[i] < 128
Decode(b) == [i \in 1..Len(b) |-> Chr(b[i])]

IsSpace(c) == c \in {" ", "\n"}

RECURSIVE LStrip(_)
LStrip(s) ==
    IF s # <<>> /\ IsSpace(Head(s)) THEN LStrip(Tail(s)) ELSE s

RECURSIVE RStrip(_)
RStrip(s) ==
    IF s # <<>> /\ IsSpace(s[Len(s)]) THEN RStrip(SubSeq(s, 1, Len(s) - 1))
    ELSE s

\* str.strip()
Strip(s) == RStrip(LStrip(s))

\* sub in s
Contains(sub, s) ==
    \E i \in 0..(Len(s) - Len(sub)) : SubSeq(s, i + 1, i + Len(sub)) = sub

(***************************************************************************)
(* Concrete strings.                                                       *)
(***************************************************************************)
TokA == <<"A", "b", "C", "1", "2", "3", "X", "y">>
TokB == <<"Z", "z", "9", "Y", "y", "8", "X", "x">>
sExpired == <<"E", "x", "p", "i", "r", "e", "d">>
sReset == <<"R", "e", "s", "e", "t">>
sIdle == <<"I", "d", "l", "e">>
sNA == <<"N", "/", "A">>

\* Payloads the peripheral may return for a read of the claim characteristic.
ClaimPayloads ==
    {Encode(TokA), Encode(TokB), Encode(<<" ">> \o TokA \o <<"\n">>),
     Encode(<<>>), Encode(<<"a", "b">>), Encode(TokA \o <<"z">>), <<255>>}

\* Payloads the peripheral may push on the status characteristic.
StatusPayloads == {Encode(sIdle), Encode(sExpired \o <<"\n">>), <<255>>}

\* Tokens a caller may present to hold, ssid and wipe.
PresentTokens == {None, Str(<<>>), Str(TokA), Str(TokB)}

\* The characteristics of the AMB82 service.
AllChars == {"claim", "hold", "ssid_control", "current_ssid", "wipe", "status"}

\* The two characteristics the service reads and subscribes to, and the
\* properties the code tests on them.
NotifyChars == {"status", "current_ssid"}
AllProps == NotifyChars \X {"read", "notify"}

(***************************************************************************)
(* State.                                                                  *)
(***************************************************************************)
VARIABLES
    active_token,    \* self.active_token
    last_hold_time,  \* self.last_hold_time
    claim_enabled,   \* self.claim_enabled
    current_ssid,    \* self.current_ssid
    status,          \* self.status
    now,             \* time.time()
    client,          \* self.client: "none", "up" (is_connected), "down"
    chars,           \* the characteristics found by _discover_characteristics
    props,           \* the <<characteristic, property>> pairs found with them
    notifying,       \* the characteristics the transport notifies on
    handlers,        \* the characteristics whose _x_notification_handler is set
    started,         \* history: a start succeeded since the last stop that did
    pc,              \* per caller: "idle" or the operation awaiting the transport
    call,            \* per caller: the token and payload of the awaited call
    ret,             \* the value the step just taken returned to its caller
    mainpc,          \* the statement main() is at ("off": main() is not run)
    mtoken           \* main()'s local variables token and new_token

lease == <<active_token, last_hold_time, claim_enabled>>
periph == <<current_ssid, status>>
conn == <<client, chars, props, notifying, handlers, started>>
script == <<mainpc, mtoken>>
vars == <<active_token, last_hold_time, claim_enabled, current_ssid, status,
          now, client, chars, props, notifying, handlers, started, pc, call,
          ret, mainpc, mtoken>>

NoCall == [token |-> None, payload |-> <<>>]
NoRet ==
    [who |-> 0, op |-> "-", arg |-> None, out |-> "-", tok |-> None,
     io |-> FALSE]

\* Caller c's call op(arg) (caller 0: whoever runs connect/disconnect) returns
\* (or raises) `out`, with the token `tok` when
\* it is a successful claim; `io` tells whether the call awaited the transport.
Return(c, op, arg, out, tok, io) ==
    ret' = [who |-> c, op |-> op, arg |-> arg, out |-> out, tok |-> tok,
            io |-> io]

\* The step returns nothing to a caller.
NoReturn == ret' = NoRet

\* `not self.client or not self.client.is_connected or not self._x_char`
Usable(ch) == client = "up" /\ ch \in chars

\* time.time() - self.last_hold_time > TOKEN_EXPIRY_DURATION
Expired == now - last_hold_time > TOKEN_EXPIRY_DURATION

\* reset_state() that leaves the mirrored peripheral values alone.
reset_stateLeaseOnly ==
    /\ active_token' = None
    /\ last_hold_time' = 0
    /\ claim_enabled' = TRUE
    /\ UNCHANGED <<current_ssid, status>>

\* reset_state(): the lease and the mirrored peripheral values.
reset_state ==
    /\ active_token' = None
    /\ last_hold_time' = 0
    /\ claim_enabled' = TRUE
    /\ current_ssid' = sNA
    /\ status' = sIdle

\* AMB82Service(): the state after __init__.
Constructed ==
    /\ active_token = None
    /\ last_hold_time = 0
    /\ claim_enabled = TRUE
    /\ current_ssid = sNA
    /\ status = sIdle
    /\ now = StartTime
    /\ client = "none"
    /\ chars = {}
    /\ props = {}
    /\ notifying = {}
    /\ handlers = {}
    /\ started = {}
    /\ pc = [c \in Callers |-> "idle"]
    /\ call = [c \in Callers |-> NoCall]
    /\ ret = NoRet

Init ==
    /\ Constructed
    /\ mainpc = "off"
    /\ mtoken = None

\* _is_token_valid without the comparison with the stored token.
IsTokenValidAnyToken(token) ==
    IF ~Truthy(token) THEN "False"
    ELSE IF now - last_hold_time > TOKEN_EXPIRY_DURATION
         THEN IF "TOKEN_EXPIRATION" \in ModuleGlobals THEN "Expired"
              ELSE "NameError"
         ELSE "True"

\* _is_token_valid that tests the age of the lease before the token.
IsTokenValidAgeFirst(token) ==
    IF ~Truthy(token) THEN "False"
    ELSE IF Truthy(active_token) /\ Expired THEN "Expired"
    ELSE IF token # active_token THEN "False"
    ELSE "True"

\* _is_token_valid that already refuses a token whose age equals the duration.
IsTokenValidStrictAge(token) ==
    IF ~Truthy(token) \/ token # active_token THEN "False"
    ELSE IF now - last_hold_time >= TOKEN_EXPIRY_DURATION
         THEN IF "TOKEN_EXPIRATION" \in ModuleGlobals THEN "Expired"
              ELSE "NameError"
         ELSE "True"

\* _is_token_valid(token): "True", "False", "Expired" (the lease is cleared and
\* False returned) or "NameError".  The expiry test reads the global
\* TOKEN_EXPIRATION after the age comparison succeeded; a name that is not bound
\* raises NameError before the lease is touched.
IsTokenValid(token) ==
    IF ~Truthy(token) \/ token # active_token THEN "False"
    ELSE IF Expired
         THEN IF "TOKEN_EXPIRATION" \in ModuleGlobals THEN "Expired"
              ELSE "NameError"
         ELSE "True"

\* The lease after a validity check that did not let the call proceed.
CheckEffect(verdict) ==
    IF verdict = "Expired"
    THEN /\ active_token' = None
         /\ claim_enabled' = TRUE
         /\ UNCHANGED last_hold_time
    ELSE UNCHANGED lease

(***************************************************************************)
(* main(): the statement it is at.  Its continuation runs in the very step *)
(* in which the call it awaits returns, before anything else is scheduled. *)
(***************************************************************************)
Main == 1

\* The statement main() is at once the call it made at `at` returned r.
MainNext(at, r) ==
    CASE at = "connect" ->
            IF r.out = "True" THEN "claim1" ELSE "done"
      [] at = "claim1" ->
            IF r.out = "token" THEN "hold1"
            ELSE IF r.out = "None" THEN "claim_failed" ELSE "except_claim1"
      [] at = "hold1" ->
            IF r.out = "NameError" THEN "except_hold1" ELSE "sleep"
      [] at = "hold2" ->
            IF r.out = "NameError" THEN "except_hold2" ELSE "claim2"
      [] at = "claim2" ->
            IF r.out = "token" THEN "wipe"
            ELSE IF r.out = "None" THEN "no_wipe" ELSE "except_claim2"
      [] at = "wipe" ->
            IF r.out = "NameError" THEN "except_wipe" ELSE "finally"
      [] at = "finally" -> "done"
      [] OTHER -> at

\* The call main() awaits (or makes) at statement `at`.
MainAwaits(at) ==
    CASE at = "connect" -> "connect"
      [] at \in {"claim1", "claim2"} -> "claim"
      [] at \in {"hold1", "hold2"} -> "hold"
      [] at = "wipe" -> "wipe"
      [] at = "finally" -> "disconnect"
      [] OTHER -> "nothing"

\* What the step does to main(): nothing unless it returns main()'s call.
ScriptStep ==
    IF /\ mainpc # "off"
       /\ ret'.op = MainAwaits(mainpc)
       /\ ret'.who = (IF mainpc \in {"connect", "finally"} THEN 0 ELSE Main)
    THEN /\ mainpc' = MainNext(mainpc, ret')
         /\ mtoken' = IF ret'.out = "token" THEN ret'.tok ELSE mtoken
    ELSE UNCHANGED script

\* Time passes.
Tick ==
    /\ now < MaxTime
    /\ now' = now + 1
    /\ NoReturn
    /\ UNCHANGED <<lease, periph, conn, pc, call>>
    /\ ScriptStep

(***************************************************************************)
(* Connection.                                                             *)
(***************************************************************************)
\* connect(): the device is found, the client connects, every characteristic
\* of the service is discovered and the notifications are started.
ConnectOk ==
    /\ client # "up"
    /\ client' = "up"
    /\ chars' = AllChars
    /\ props' = AllProps
    /\ notifying' = NotifyChars
    /\ handlers' = NotifyChars
    /\ started' = started \cup NotifyChars
    /\ Return(0, "connect", None, "True", None, TRUE)
    /\ UNCHANGED <<lease, periph, now, pc, call>>
    /\ ScriptStep

\* connect(): the device is not found or the connection fails.
ConnectFail ==
    /\ client # "up"
    /\ client' = "none"
    /\ notifying' = {}
    /\ Return(0, "connect", None, "False", None, TRUE)
    /\ UNCHANGED <<chars, props, handlers, started, lease, periph, now, pc,
                   call>>
    /\ ScriptStep

\* disconnect(): drops the client and resets the state.
Disconnect ==
    /\ client' = "none"
    /\ notifying' = {}
    /\ reset_state
    /\ Return(0, "disconnect", None, "None", None, TRUE)
    /\ UNCHANGED <<chars, props, handlers, started, now, pc, call>>
    /\ ScriptStep

\* reset(): resets the wrapper's state without contacting the device.
Reset ==
    /\ reset_state
    /\ NoReturn
    /\ UNCHANGED <<conn, now, pc, call>>
    /\ ScriptStep

(***************************************************************************)
(* claim()                                                                 *)
(***************************************************************************)
\* claim() up to `await self.client.read_gatt_char(...)`.
ClaimCall(c) ==
    /\ pc[c] = "idle"
    /\ IF ~Usable("claim") \/ ~claim_enabled
       THEN /\ Return(c, "claim", None, "None", None, FALSE)
            /\ UNCHANGED <<lease, pc, call>>
       ELSE LET verdict == IF Truthy(active_token)
                           THEN IsTokenValid(active_token) ELSE "skipped"
            IN  IF verdict = "NameError"
                THEN /\ Return(c, "claim", None, "NameError", None, FALSE)
                     /\ UNCHANGED <<lease, pc, call>>
                ELSE /\ CheckEffect(verdict)
                     /\ pc' = [pc EXCEPT ![c] = "claim"]
                     /\ NoReturn
                     /\ UNCHANGED call
    /\ UNCHANGED <<periph, conn, now>>
    /\ ScriptStep

\* claim() that stores the token and leaves claiming enabled.
ClaimReadKeepsEnabled(c, b) ==
    /\ pc[c] = "claim"
    /\ pc' = [pc EXCEPT ![c] = "idle"]
    /\ IF Decodable(b) /\ Len(Strip(Decode(b))) = TOKEN_LENGTH
       THEN /\ active_token' = Str(Strip(Decode(b)))
            /\ last_hold_time' = now
            /\ Return(c, "claim", None, "token", Str(Strip(Decode(b))), TRUE)
            /\ UNCHANGED claim_enabled
       ELSE /\ Return(c, "claim", None, "None", None, TRUE)
            /\ UNCHANGED lease
    /\ UNCHANGED <<periph, conn, now, call>>
    /\ ScriptStep

\* claim() without the length test on the token it read.
ClaimReadAnyLength(c, b) ==
    /\ pc[c] = "claim"
    /\ pc' = [pc EXCEPT ![c] = "idle"]
    /\ IF Decodable(b) /\ Len(Strip(Decode(b))) > 0
       THEN /\ active_token' = Str(Strip(Decode(b)))
            /\ last_hold_time' = now
            /\ claim_enabled' = FALSE
            /\ Return(c, "claim", None, "token", Str(Strip(Decode(b))), TRUE)
       ELSE /\ Return(c, "claim", None, "None", None, TRUE)
            /\ UNCHANGED lease
    /\ UNCHANGED <<periph, conn, now, call>>
    /\ ScriptStep

\* The read returned the bytes b.
ClaimRead(c, b) ==
    /\ pc[c] = "claim"
    /\ pc' = [pc EXCEPT ![c] = "idle"]
    /\ IF Decodable(b) /\ Len(Strip(Decode(b))) = TOKEN_LENGTH
       THEN /\ active_token' = Str(Strip(Decode(b)))
            /\ last_hold_time' = now
            /\ claim_enabled' = FALSE
            /\ Return(c, "claim", None, "token", Str(Strip(Decode(b))), TRUE)
       ELSE /\ Return(c, "claim", None, "None", None, TRUE)
            /\ UNCHANGED lease
    /\ UNCHANGED <<periph, conn, now, call>>
    /\ ScriptStep

\* The read raised.
ClaimFail(c) ==
    /\ pc[c] = "claim"
    /\ pc' = [pc EXCEPT ![c] = "idle"]
    /\ Return(c, "claim", None, "None", None, TRUE)
    /\ UNCHANGED <<lease, periph, conn, now, call>>
    /\ ScriptStep

(***************************************************************************)
(* hold(token), ssid(token, new_ssid, password), wipe(token)               *)
(***************************************************************************)
\* The shared part with the validity check made before the connection test.
GatedCallChecksFirst(c, op, ch, token, payload) ==
    /\ pc[c] = "idle"
    /\ LET verdict == IsTokenValid(token)
       IN  IF verdict \in {"NameError", "Expired"}
           THEN /\ CheckEffect(verdict)
                /\ Return(c, op, token,
                          IF verdict = "NameError" THEN "NameError"
                          ELSE "False", None, FALSE)
                /\ UNCHANGED <<pc, call>>
           ELSE IF verdict = "False" \/ ~Usable(ch)
           THEN /\ Return(c, op, token, "False", None, FALSE)
                /\ UNCHANGED <<lease, pc, call>>
           ELSE /\ pc' = [pc EXCEPT ![c] = op]
                /\ call' = [call EXCEPT ![c] =
                               [token |-> token, payload |-> payload]]
                /\ NoReturn
                /\ UNCHANGED lease
    /\ UNCHANGED <<periph, conn, now>>
    /\ ScriptStep

\* The part the three share: the connection test, the validity gate, and the
\* start of the acknowledged write of `payload` to characteristic ch.
GatedCall(c, op, ch, token, payload) ==
    /\ pc[c] = "idle"
    /\ IF ~Usable(ch)
       THEN /\ Return(c, op, token, "False", None, FALSE)
            /\ UNCHANGED <<lease, pc, call>>
       ELSE LET verdict == IsTokenValid(token)
            IN  IF verdict = "True"
                THEN /\ pc' = [pc EXCEPT ![c] = op]
                     /\ call' = [call EXCEPT ![c] =
                                    [token |-> token, payload |-> payload]]
                     /\ NoReturn
                     /\ UNCHANGED lease
                ELSE /\ CheckEffect(verdict)
                     /\ Return(c, op, token,
                               IF verdict = "NameError" THEN "NameError"
                               ELSE "False", None, FALSE)
                     /\ UNCHANGED <<pc, call>>
    /\ UNCHANGED <<periph, conn, now>>
    /\ ScriptStep

\* An acknowledged write that also clears the lease.
WriteAckClears(c, op) ==
    /\ pc[c] = op
    /\ pc' = [pc EXCEPT ![c] = "idle"]
    /\ call' = [call EXCEPT ![c] = NoCall]
    /\ last_hold_time' = now
    /\ active_token' = None
    /\ claim_enabled' = TRUE
    /\ Return(c, op, call[c].token, "True", None, TRUE)
    /\ UNCHANGED <<periph, conn, now>>
    /\ ScriptStep

\* The write was acknowledged: the call records the renewal and returns True.
WriteAck(c, op) ==
    /\ pc[c] = op
    /\ pc' = [pc EXCEPT ![c] = "idle"]
    /\ call' = [call EXCEPT ![c] = NoCall]
    /\ last_hold_time' = now
    /\ Return(c, op, call[c].token, "True", None, TRUE)
    /\ UNCHANGED <<active_token, claim_enabled, periph, conn, now>>
    /\ ScriptStep

\* A failed write that records the renewal all the same.
WriteFailRenews(c, op) ==
    /\ pc[c] = op
    /\ pc' = [pc EXCEPT ![c] = "idle"]
    /\ call' = [call EXCEPT ![c] = NoCall]
    /\ last_hold_time' = now
    /\ Return(c, op, call[c].token, "False", None, TRUE)
    /\ UNCHANGED <<active_token, claim_enabled, periph, conn, now>>
    /\ ScriptStep

\* A failed write after which the call gives the lease up.
WriteFailReleases(c, op) ==
    /\ pc[c] = op
    /\ pc' = [pc EXCEPT ![c] = "idle"]
    /\ call' = [call EXCEPT ![c] = NoCall]
    /\ active_token' = None
    /\ claim_enabled' = TRUE
    /\ Return(c, op, call[c].token, "False", None, TRUE)
    /\ UNCHANGED <<last_hold_time, periph, conn, now>>
    /\ ScriptStep

\* The write raised: the call returns False.
WriteFail(c, op) ==
    /\ pc[c] = op
    /\ pc' = [pc EXCEPT ![c] = "idle"]
    /\ call' = [call EXCEPT ![c] = NoCall]
    /\ Return(c, op, call[c].token, "False", None, TRUE)
    /\ UNCHANGED <<lease, periph, conn, now>>
    /\ ScriptStep

HoldCall(c, token) ==
    GatedCall(c, "hold", "hold", token,
              IF token.isNone THEN <<>> ELSE Encode(token.s))
HoldAck(c) == WriteAck(c, "hold")
HoldFail(c) == WriteFail(c, "hold")

\* A payload of ssid() that appends the password whether or not new_ssid is
\* given.
SsidPayloadLoosePassword(token, new_ssid, password) ==
    token.s
      \o (IF Truthy(new_ssid) THEN <<",">> \o new_ssid.s ELSE <<>>)
      \o (IF Truthy(password) THEN <<",">> \o password.s ELSE <<>>)

\* The payload of ssid(): token[,new_ssid[,password]].
SsidPayload(token, new_ssid, password) ==
    token.s
      \o (IF Truthy(new_ssid)
          THEN <<",">> \o new_ssid.s
                 \o (IF Truthy(password) THEN <<",">> \o password.s ELSE <<>>)
          ELSE <<>>)

SsidCall(c, token, new_ssid, password) ==
    GatedCall(c, "ssid", "ssid_control", token,
              IF token.isNone THEN <<>>
              ELSE Encode(SsidPayload(token, new_ssid, password)))
SsidAck(c) == WriteAck(c, "ssid")
SsidFail(c) == WriteFail(c, "ssid")

WipeCall(c, token) ==
    GatedCall(c, "wipe", "wipe", token,
              IF token.isNone THEN <<>> ELSE Encode(token.s))
WipeAck(c) == WriteAck(c, "wipe")
WipeFail(c) == WriteFail(c, "wipe")

(***************************************************************************)
(* Notifications.                                                          *)
(***************************************************************************)
\* A status handler that drops the token and leaves claim_enabled alone.
StatusNotifyTokenOnly(data) ==
    /\ client = "up"
    /\ "status" \in notifying
    /\ IF Decodable(data)
       THEN /\ status' = Strip(Decode(data))
            /\ IF Contains(sExpired, status') \/ Contains(sReset, status')
               THEN /\ active_token' = None
                    /\ UNCHANGED <<claim_enabled, last_hold_time>>
               ELSE UNCHANGED lease
       ELSE UNCHANGED <<status, lease>>
    /\ NoReturn
    /\ UNCHANGED <<current_ssid, conn, now, pc, call>>
    /\ ScriptStep

\* A status handler that clears the lease whatever the status text is.
StatusNotifyAlwaysClears(data) ==
    /\ client = "up"
    /\ "status" \in notifying
    /\ IF Decodable(data)
       THEN /\ status' = Strip(Decode(data))
            /\ active_token' = None
            /\ claim_enabled' = TRUE
            /\ UNCHANGED last_hold_time
       ELSE UNCHANGED <<status, lease>>
    /\ NoReturn
    /\ UNCHANGED <<current_ssid, conn, now, pc, call>>
    /\ ScriptStep

\* _default_status_handler(sender, data), run by the event loop between the
\* steps of the callers.
StatusNotify(data) ==
    /\ client = "up"
    /\ "status" \in notifying
    /\ IF Decodable(data)
       THEN /\ status' = Strip(Decode(data))
            /\ IF Contains(sExpired, status') \/ Contains(sReset, status')
               THEN /\ active_token' = None
                    /\ claim_enabled' = TRUE
                    /\ UNCHANGED last_hold_time
               ELSE UNCHANGED lease
       ELSE UNCHANGED <<status, lease>>
    /\ NoReturn
    /\ UNCHANGED <<current_ssid, conn, now, pc, call>>
    /\ ScriptStep

(***************************************************************************)
(* get_state()                                                             *)
(***************************************************************************)
token_expired == Truthy(active_token) /\ Expired

\* get_state() that reports the stored flag only.
get_stateStoredFlag ==
    [active_token |-> IF ~token_expired THEN active_token ELSE None,
     claim_enabled |-> claim_enabled,
     current_ssid |-> current_ssid,
     last_hold_time |-> last_hold_time,
     token_expired |-> token_expired,
     status |-> status,
     is_connected |-> client = "up"]

get_state ==
    [active_token |-> IF ~token_expired THEN active_token ELSE None,
     claim_enabled |-> claim_enabled \/ token_expired,
     current_ssid |-> current_ssid,
     last_hold_time |-> last_hold_time,
     token_expired |-> token_expired,
     status |-> status,
     is_connected |-> client = "up"]

(***************************************************************************)
(* The lease under concurrent callers, notifications and passing time.     *)
(***************************************************************************)
Next ==
    \/ Tick
    \/ ConnectOk
    \/ Reset
    \/ \E c \in Callers : ClaimCall(c)
    \/ \E c \in Callers, b \in ClaimPayloads : ClaimRead(c, b)
    \/ \E c \in Callers : ClaimFail(c)
    \/ \E c \in Callers, t \in PresentTokens : HoldCall(c, t)
    \/ \E c \in Callers : HoldAck(c)
    \/ \E c \in Callers : HoldFail(c)
    \/ \E c \in Callers, t \in PresentTokens : WipeCall(c, t)
    \/ \E c \in Callers : WipeAck(c)
    \/ \E c \in Callers : WipeFail(c)
    \/ \E data \in StatusPayloads : StatusNotify(data)

Spec == Init /\ [][Next]_vars

(***************************************************************************)
(* main(): connect, claim, hold, sleep past the expiry, hold, claim, wipe, *)
(* disconnect, run by caller Main against the same service while time      *)
(* passes and the peripheral pushes status notifications.  The two reads   *)
(* of lines 482-483 touch only status and current_ssid and are not part of *)
(* the script.                                                             *)
(***************************************************************************)
InitMain ==
    /\ Constructed
    /\ mainpc = "connect"
    /\ mtoken = None

MainConnectOk == mainpc = "connect" /\ ConnectOk
MainConnectFail == mainpc = "connect" /\ ConnectFail

\* token = await service.claim() and new_token = await service.claim()
MainClaim == mainpc \in {"claim1", "claim2"} /\ ClaimCall(Main)

\* await service.hold(token), before and after the sleep
MainHold == mainpc \in {"hold1", "hold2"} /\ HoldCall(Main, mtoken)

\* await asyncio.sleep(TOKEN_EXPIRY_DURATION + 1)
MainSleep ==
    /\ mainpc = "sleep"
    /\ now + TOKEN_EXPIRY_DURATION + 1 <= MaxTime
    /\ now' = now + TOKEN_EXPIRY_DURATION + 1
    /\ mainpc' = "hold2"
    /\ NoReturn
    /\ UNCHANGED <<lease, periph, conn, pc, call, mtoken>>

\* await service.wipe(new_token)
MainWipe == mainpc = "wipe" /\ WipeCall(Main, mtoken)

\* `except Exception`, "Claim failed." and a falsy new_token all lead to the
\* finally block.
MainFallThrough ==
    /\ mainpc \in {"except_claim1", "except_hold1", "except_hold2",
                   "except_claim2", "except_wipe", "claim_failed", "no_wipe"}
    /\ mainpc' = "finally"
    /\ NoReturn
    /\ UNCHANGED <<lease, periph, conn, now, pc, call, mtoken>>

\* finally: disconnect when still connected.
MainFinally ==
    /\ mainpc = "finally"
    /\ IF client = "up" THEN Disconnect
       ELSE /\ mainpc' = "done"
            /\ NoReturn
            /\ UNCHANGED <<lease, periph, conn, now, pc, call, mtoken>>

\* A notification reaches the handler only while main() is suspended.
MainStatusNotify(data) ==
    /\ pc[Main] # "idle" \/ mainpc = "sleep"
    /\ StatusNotify(data)

NextMain ==
    \/ Tick
    \/ MainConnectOk
    \/ MainConnectFail
    \/ MainClaim
    \/ \E b \in ClaimPayloads : ClaimRead(Main, b)
    \/ ClaimFail(Main)
    \/ MainHold
    \/ HoldAck(Main)
    \/ HoldFail(Main)
    \/ MainSleep
    \/ MainWipe
    \/ WipeAck(Main)
    \/ WipeFail(Main)
    \/ MainFallThrough
    \/ MainFinally
    \/ \E data \in StatusPayloads : MainStatusNotify(data)

SpecMain == InitMain /\ [][NextMain]_vars

(***************************************************************************)
(* The remaining entry points of the service.                              *)
(***************************************************************************)
\* Payloads the peripheral may push on the current-SSID characteristic.
sNet1 == <<"n", "e", "t", "1">>
sPass1 == <<"p", "a", "s", "s", "1">>
SsidPayloads == {Encode(<<" ">> \o sNet1 \o <<"\n">>), <<255>>}

\* Status payloads with the second marker inside a longer text.
StatusPayloadsOps == StatusPayloads \cup {Encode(<<"1", " ">> \o sReset)}

\* Values a caller may pass as new_ssid and as password.
SsidArgs == {None, Str(<<>>), Str(sNet1)}
PasswordArgs == {None, Str(<<>>), Str(sPass1)}

\* _default_ssid_handler(sender, data), run by the event loop between the
\* steps of the callers; bytes that do not decode raise before the assignment.
SsidNotify(data) ==
    /\ client = "up"
    /\ "current_ssid" \in notifying
    /\ IF Decodable(data)
       THEN current_ssid' = Strip(Decode(data))
       ELSE UNCHANGED current_ssid
    /\ NoReturn
    /\ UNCHANGED <<status, lease, conn, now, pc, call>>
    /\ ScriptStep

\* get_state() that performs the release it reports.
GetStateReleases ==
    /\ Return(0, "get_state", None, "state", get_state.active_token, FALSE)
    /\ IF token_expired
       THEN /\ active_token' = None
            /\ claim_enabled' = TRUE
            /\ UNCHANGED last_hold_time
       ELSE UNCHANGED lease
    /\ UNCHANGED <<periph, conn, now, pc, call>>
    /\ ScriptStep

\* A call of get_state(): it returns the view and assigns nothing.
GetState ==
    /\ Return(0, "get_state", None, "state", get_state.active_token, FALSE)
    /\ UNCHANGED <<lease, periph, conn, now, pc, call>>
    /\ ScriptStep

\* A cancellation that lets the call record its renewal all the same.
CancelAfterRenewal(c, caught) ==
    /\ pc[c] # "idle"
    /\ pc' = [pc EXCEPT ![c] = "idle"]
    /\ call' = [call EXCEPT ![c] = NoCall]
    /\ last_hold_time' = now
    /\ Return(c, pc[c], call[c].token,
              IF ~caught THEN "CancelledError"
              ELSE IF pc[c] = "claim" THEN "None" ELSE "False",
              None, TRUE)
    /\ UNCHANGED <<active_token, claim_enabled, periph, conn, now>>
    /\ ScriptStep

\* The task of caller c is cancelled while it awaits the transport: the await
\* raises CancelledError, which `except Exception` catches on Python 3.7 (the
\* call then returns its failure value) and lets through from Python 3.8 on.
Cancel(c, caught) ==
    /\ pc[c] # "idle"
    /\ pc' = [pc EXCEPT ![c] = "idle"]
    /\ call' = [call EXCEPT ![c] = NoCall]
    /\ Return(c, pc[c], call[c].token,
              IF ~caught THEN "CancelledError"
              ELSE IF pc[c] = "claim" THEN "None" ELSE "False",
              None, TRUE)
    /\ UNCHANGED <<lease, periph, conn, now>>
    /\ ScriptStep

(***************************************************************************)
(* One client using every entry point of a connected service, with both    *)
(* notification handlers, cancellation and passing time.                   *)
(***************************************************************************)
Holder == 1

NextOps ==
    \/ Tick
    \/ ConnectOk
    \/ Disconnect
    \/ Reset
    \/ GetState
    \/ ClaimCall(Holder)
    \/ \E b \in ClaimPayloads : ClaimRead(Holder, b)
    \/ ClaimFail(Holder)
    \/ \E t \in PresentTokens : HoldCall(Holder, t)
    \/ HoldAck(Holder)
    \/ HoldFail(Holder)
    \/ \E t \in PresentTokens, n \in SsidArgs, p \in PasswordArgs :
          SsidCall(Holder, t, n, p)
    \/ SsidAck(Holder)
    \/ SsidFail(Holder)
    \/ \E t \in PresentTokens : WipeCall(Holder, t)
    \/ WipeAck(Holder)
    \/ WipeFail(Holder)
    \/ \E data \in StatusPayloadsOps : StatusNotify(data)
    \/ \E data \in SsidPayloads : SsidNotify(data)
    \/ \E caught \in BOOLEAN : Cancel(Holder, caught)

SpecOps == Init /\ [][NextOps]_vars

(***************************************************************************)
(* Notification subscriptions and pass-through reads.                      *)
(***************************************************************************)
StartOp(ch) == IF ch = "status" THEN "start_status" ELSE "start_ssid"
StopOp(ch) == IF ch = "status" THEN "stop_status" ELSE "stop_ssid"
ReadOp(ch) == IF ch = "status" THEN "read_status" ELSE "read_ssid"

\* start_status_notifications() / start_ssid_notifications() up to
\* `await self.client.start_notify(...)`: the handler attribute is assigned
\* before the transport is asked.
StartCall(c, ch) ==
    /\ pc[c] = "idle"
    /\ IF ~Usable(ch) \/ <<ch, "notify">> \notin props
       THEN /\ Return(c, StartOp(ch), None, "False", None, FALSE)
            /\ UNCHANGED <<handlers, pc>>
       ELSE /\ handlers' = handlers \cup {ch}
            /\ pc' = [pc EXCEPT ![c] = StartOp(ch)]
            /\ NoReturn
    /\ UNCHANGED <<lease, periph, client, chars, props, notifying, started,
                   now, call>>
    /\ ScriptStep

\* start_notify returned: the transport now delivers the notifications.
StartAck(c, ch) ==
    /\ pc[c] = StartOp(ch)
    /\ client = "up"
    /\ pc' = [pc EXCEPT ![c] = "idle"]
    /\ notifying' = notifying \cup {ch}
    /\ started' = started \cup {ch}
    /\ Return(c, StartOp(ch), None, "True", None, TRUE)
    /\ UNCHANGED <<lease, periph, client, chars, props, handlers, now, call>>
    /\ ScriptStep

\* start_notify raised: the call returns False, the handler attribute stays.
StartFail(c, ch) ==
    /\ pc[c] = StartOp(ch)
    /\ pc' = [pc EXCEPT ![c] = "idle"]
    /\ Return(c, StartOp(ch), None, "False", None, TRUE)
    /\ UNCHANGED <<lease, periph, conn, now, call>>
    /\ ScriptStep

\* stop_status_notifications() / stop_ssid_notifications() up to
\* `await self.client.stop_notify(...)`.
StopCall(c, ch) ==
    /\ pc[c] = "idle"
    /\ IF ~Usable(ch) \/ ch \notin handlers
       THEN /\ Return(c, StopOp(ch), None, "False", None, FALSE)
            /\ UNCHANGED pc
       ELSE /\ pc' = [pc EXCEPT ![c] = StopOp(ch)]
            /\ NoReturn
    /\ UNCHANGED <<lease, periph, conn, now, call>>
    /\ ScriptStep

\* stop_notify returned: the handler attribute is cleared.
StopAck(c, ch) ==
    /\ pc[c] = StopOp(ch)
    /\ client = "up"
    /\ pc' = [pc EXCEPT ![c] = "idle"]
    /\ notifying' = notifying \ {ch}
    /\ handlers' = handlers \ {ch}
    /\ started' = started \ {ch}
    /\ Return(c, StopOp(ch), None, "True", None, TRUE)
    /\ UNCHANGED <<lease, periph, client, chars, props, now, call>>
    /\ ScriptStep

\* stop_notify raised.
StopFail(c, ch) ==
    /\ pc[c] = StopOp(ch)
    /\ pc' = [pc EXCEPT ![c] = "idle"]
    /\ Return(c, StopOp(ch), None, "False", None, TRUE)
    /\ UNCHANGED <<lease, periph, conn, now, call>>
    /\ ScriptStep

\* read_status() / read_current_ssid() up to `await read_gatt_char(...)`.
ReadCall(c, ch) ==
    /\ pc[c] = "idle"
    /\ IF ~Usable(ch)
       THEN /\ Return(c, ReadOp(ch), None, "Error", None, FALSE)
            /\ UNCHANGED pc
       ELSE IF <<ch, "read">> \notin props
       THEN /\ Return(c, ReadOp(ch), None, "Error: Not readable", None, FALSE)
            /\ UNCHANGED pc
       ELSE /\ pc' = [pc EXCEPT ![c] = ReadOp(ch)]
            /\ NoReturn
    /\ UNCHANGED <<lease, periph, conn, now, call>>
    /\ ScriptStep

\* A read that stores the text in both mirrored fields.
ReadOkBothFields(c, ch, b) ==
    /\ pc[c] = ReadOp(ch)
    /\ pc' = [pc EXCEPT ![c] = "idle"]
    /\ IF Decodable(b)
       THEN /\ status' = Strip(Decode(b))
            /\ current_ssid' = Strip(Decode(b))
            /\ Return(c, ReadOp(ch), None, "value", Str(Strip(Decode(b))),
                      TRUE)
       ELSE /\ Return(c, ReadOp(ch), None, "Error", None, TRUE)
            /\ UNCHANGED periph
    /\ UNCHANGED <<lease, conn, now, call>>
    /\ ScriptStep

\* The read returned the bytes b: the decoded, stripped text is stored in the
\* field of the characteristic and returned; bytes that do not decode raise
\* before the assignment and the call returns "Error".
ReadOk(c, ch, b) ==
    /\ pc[c] = ReadOp(ch)
    /\ pc' = [pc EXCEPT ![c] = "idle"]
    /\ IF Decodable(b)
       THEN /\ IF ch = "status"
               THEN status' = Strip(Decode(b)) /\ UNCHANGED current_ssid
               ELSE current_ssid' = Strip(Decode(b)) /\ UNCHANGED status
            /\ Return(c, ReadOp(ch), None, "value", Str(Strip(Decode(b))),
                      TRUE)
       ELSE /\ Return(c, ReadOp(ch), None, "Error", None, TRUE)
            /\ UNCHANGED periph
    /\ UNCHANGED <<lease, conn, now, call>>
    /\ ScriptStep

\* The read raised.
ReadFail(c, ch) ==
    /\ pc[c] = ReadOp(ch)
    /\ pc' = [pc EXCEPT ![c] = "idle"]
    /\ Return(c, ReadOp(ch), None, "Error", None, TRUE)
    /\ UNCHANGED <<lease, periph, conn, now, call>>
    /\ ScriptStep

\* What _discover_characteristics may find on a peripheral that does not
\* offer the whole service: the characteristics and their properties.
Discoveries ==
    {[chars |-> AllChars \ {"claim", "current_ssid"},
      props |-> {<<"status", "notify">>}],
     [chars |-> {"claim", "status", "current_ssid"},
      props |-> NotifyChars \X {"read"}]}

\* connect() to such a peripheral: notifications are started on the
\* characteristics found that support them.
ConnectPartial(d) ==
    /\ client # "up"
    /\ client' = "up"
    /\ chars' = d.chars
    /\ props' = d.props
    /\ notifying' =
          {ch \in NotifyChars \cap d.chars : <<ch, "notify">> \in d.props}
    /\ handlers' = handlers \cup notifying'
    /\ started' = started \cup notifying'
    /\ Return(0, "connect", None, "True", None, TRUE)
    /\ UNCHANGED <<lease, periph, now, pc, call>>
    /\ ScriptStep

\* The link drops while no call awaits the transport: is_connected turns
\* false and nothing in the service is told.
LinkLost ==
    /\ client = "up"
    /\ \A c \in Callers : pc[c] = "idle"
    /\ client' = "down"
    /\ NoReturn
    /\ UNCHANGED <<lease, periph, chars, props, notifying, handlers, started,
                   now, pc, call>>
    /\ ScriptStep

\* Bytes a read of the characteristic may return.
ReadPayloads(ch) == IF ch = "status" THEN StatusPayloadsOps ELSE SsidPayloads

(***************************************************************************)
(* One client managing the connection, the subscriptions and the reads of  *)
(* a service whose lease it may have claimed.                              *)
(***************************************************************************)
NextSub ==
    \/ ConnectOk
    \/ \E d \in Discoveries : ConnectPartial(d)
    \/ ConnectFail
    \/ Disconnect
    \/ LinkLost
    \/ ClaimCall(Holder)
    \/ \E b \in ClaimPayloads : ClaimRead(Holder, b)
    \/ ClaimFail(Holder)
    \/ \E ch \in NotifyChars : StartCall(Holder, ch)
    \/ \E ch \in NotifyChars : StartAck(Holder, ch)
    \/ \E ch \in NotifyChars : StartFail(Holder, ch)
    \/ \E ch \in NotifyChars : StopCall(Holder, ch)
    \/ \E ch \in NotifyChars : StopAck(Holder, ch)
    \/ \E ch \in NotifyChars : StopFail(Holder, ch)
    \/ \E ch \in NotifyChars : ReadCall(Holder, ch)
    \/ \E ch \in NotifyChars :
          \E b \in ReadPayloads(ch) : ReadOk(Holder, ch, b)
    \/ \E ch \in NotifyChars : ReadFail(Holder, ch)
    \/ \E data \in StatusPayloadsOps : StatusNotify(data)
    \/ \E data \in SsidPayloads : SsidNotify(data)

SpecSub == Init /\ [][NextSub]_vars

(***************************************************************************)
(* One client of a service whose link may drop and whose peripheral may    *)
(* offer only part of the characteristics, while time passes.              *)
(***************************************************************************)
NextLink ==
    \/ Tick
    \/ ConnectOk
    \/ \E d \in Discoveries : ConnectPartial(d)
    \/ ConnectFail
    \/ LinkLost
    \/ Disconnect
    \/ ClaimCall(Holder)
    \/ \E b \in ClaimPayloads : ClaimRead(Holder, b)
    \/ ClaimFail(Holder)
    \/ \E t \in PresentTokens : HoldCall(Holder, t)
    \/ HoldAck(Holder)
    \/ HoldFail(Holder)
    \/ \E t \in PresentTokens, n \in SsidArgs, p \in PasswordArgs :
          SsidCall(Holder, t, n, p)
    \/ SsidAck(Holder)
    \/ SsidFail(Holder)
    \/ \E t \in PresentTokens : WipeCall(Holder, t)
    \/ WipeAck(Holder)
    \/ WipeFail(Holder)

SpecLink == Init /\ [][NextLink]_vars

(***************************************************************************)
(* Steps of a caller, as seen in a pair of states.                         *)
(***************************************************************************)
\* Caller c calls op in this step (and either returns at once or waits).
Calls(c, op) ==
    /\ pc[c] = "idle"
    /\ \/ pc'[c] = op
       \/ ret'.who = c /\ ret'.op = op

\* The token c presents in the call of this step.
Presented(c) == IF pc'[c] = "idle" THEN ret'.arg ELSE call'[c].token

\* Caller c's awaited call of op returns in this step.
Completes(c, op) ==
    /\ pc[c] = op
    /\ pc'[c] = "idle"
    /\ ret'.who = c
    /\ ret'.op = op

\* The stored token is held and its age is within the expiry duration.
Held == Truthy(active_token) /\ ~Expired

(***************************************************************************)
(* C1.  Mutual exclusion: in every reachable state at most one token is    *)
(* valid, among the tokens callers may present, the token a claim just     *)
(* returned and the tokens of the calls in flight.                         *)
(***************************************************************************)
KnownTokens ==
    PresentTokens \cup {ret.tok, active_token}
        \cup {call[c].token : c \in Callers}

C1_MutualExclusion ==
    Cardinality({t \in KnownTokens : IsTokenValid(t) = "True"}) <= 1

\* A claim has just returned a valid token while another caller still awaits
\* a write it started with a different, earlier token.
C1_Witness ==
    /\ ret.op = "claim"
    /\ ret.out = "token"
    /\ IsTokenValid(ret.tok) = "True"
    /\ \E c \in Callers :
          /\ pc[c] \in {"hold", "wipe"}
          /\ Truthy(call[c].token)
          /\ call[c].token # ret.tok

(***************************************************************************)
(* C2.  Automatic release: a claim is refused as already held only while   *)
(* the stored token is still valid, so that once the stored token's age    *)
(* exceeds the expiry duration a claim goes on to read the peripheral.     *)
(***************************************************************************)
C2_AutomaticRelease ==
    (ret.op = "claim" /\ ret.out = "None" /\ ~ret.io /\ Usable("claim"))
        => Held

(***************************************************************************)
(* C3.  hold(token) with the stored token once its age exceeds the expiry  *)
(* duration returns False without a transport write and clears the lease,  *)
(* and get_state() then reports claim_enabled.                             *)
(***************************************************************************)
C3_ExpiredHoldRejected ==
    [][\A c \in Callers :
          (/\ Calls(c, "hold")
           /\ Usable("hold")
           /\ Truthy(active_token)
           /\ Expired
           /\ Presented(c) = active_token)
          => (/\ ret'.who = c
              /\ ret'.out = "False"
              /\ ~ret'.io
              /\ active_token' = None
              /\ claim_enabled'
              /\ get_state'.claim_enabled)]_vars

C5_NoSilentRenewal ==
    [][\A c \in Callers :
          /\ (Calls(c, "hold") /\ pc'[c] = "hold") => UNCHANGED lease
          /\ (Completes(c, "hold") /\ ret'.out # "True")
             => (ret'.out = "False" /\ UNCHANGED lease)
          /\ ((Calls(c, "hold") \/ Completes(c, "hold"))
                /\ last_hold_time' # last_hold_time)
             => (/\ Completes(c, "hold")
                 /\ ret'.out = "True"
                 /\ ret'.io
                 /\ last_hold_time' = now)]_vars

\* A hold of the stored, valid token has just failed at the transport, at a
\* time when a renewal would have moved last_hold_time.
C5_Witness ==
    /\ ret.op = "hold"
    /\ ret.out = "False"
    /\ ret.io
    /\ ret.arg = active_token
    /\ Held
    /\ last_hold_time < now

(***************************************************************************)
(* C6.  A hold in flight when a status notification with an expiry or      *)
(* reset marker clears the lease returns False: no hold reports success    *)
(* for a token the notification has cleared.                               *)
(***************************************************************************)
MarkerSeen == Contains(sExpired, status) \/ Contains(sReset, status)

C6_HoldSeesNotificationClear ==
    [][\A c \in Callers :
          (/\ Completes(c, "hold")
           /\ MarkerSeen
           /\ active_token = None)
          => ret'.out = "False"]_vars

(***************************************************************************)
(* C7.  A claim called while a claimed token is stored and not expired     *)
(* returns None at once, without a transport read, and leaves the stored   *)
(* token, last_hold_time and claim_enabled unchanged.                      *)
(***************************************************************************)
C7_SecondClaimDenied ==
    [][\A c \in Callers :
          (Calls(c, "claim") /\ Held)
          => (/\ ret'.who = c
              /\ ret'.op = "claim"
              /\ ret'.out = "None"
              /\ ~ret'.io
              /\ pc'[c] = "idle"
              /\ UNCHANGED lease)]_vars

\* A claim has just been refused on a connected service with a valid lease.
C7_Witness ==
    /\ ret.op = "claim"
    /\ ret.out = "None"
    /\ ~ret.io
    /\ Usable("claim")
    /\ Held

(***************************************************************************)
(* C8.  The lease scenario of main() runs to its stated outcomes: the hold *)
(* right after the claim, when acknowledged, sets last_hold_time to the    *)
(* current time; the hold after the sleep past the expiry duration returns *)
(* False (it does not raise and does not renew); the claim after it is not *)
(* refused as held, and the token it returns is the stored, valid token.   *)
(***************************************************************************)
C8_LeaseScenario ==
    /\ (ret.who = Main /\ ret.op = "hold" /\ ret.out = "True"
          /\ mainpc = "sleep")
       => last_hold_time = now
    /\ mainpc # "except_hold2"
    /\ (ret.who = Main /\ ret.op = "hold" /\ mainpc = "claim2")
       => ret.out = "False"
    /\ mainpc = "no_wipe" => ret.io
    /\ (ret.who = Main /\ ret.op = "claim" /\ mainpc = "wipe")
       => (/\ active_token = ret.tok
           /\ mtoken = ret.tok
           /\ IsTokenValid(mtoken) = "True")

(***************************************************************************)
(* C9.  Every operation returns a value: no call of claim, hold, ssid or   *)
(* wipe ends with an exception escaping to the caller.                     *)
(***************************************************************************)
C9_NoExceptionEscapes == ret.out # "NameError"

(***************************************************************************)
(* C10.  As claimed: claim_enabled is false whenever a non-expired token   *)
(* is stored and true whenever no token is stored or the stored token's    *)
(* age exceeds the expiry duration.                                        *)
(***************************************************************************)
C10_FlagTracksExpiry ==
    /\ Held => ~claim_enabled
    /\ ~Truthy(active_token) => claim_enabled
    /\ (Truthy(active_token) /\ Expired) => claim_enabled

(***************************************************************************)
(* C10, amended.  The stored claim_enabled is false whenever a token is    *)
(* stored, expired or not, and true whenever no token is stored; once the  *)
(* stored token's age exceeds the expiry duration it is the view returned  *)
(* by get_state() that reports claim_enabled true and no token.            *)
(***************************************************************************)
C10_FlagTracksToken ==
    /\ Held => ~claim_enabled
    /\ ~Truthy(active_token) => claim_enabled
    /\ (Truthy(active_token) /\ Expired)
       => (/\ ~claim_enabled
           /\ get_state.claim_enabled
           /\ get_state.active_token = None)

\* A token is stored and its age exceeds the expiry duration.
C10_Witness == Truthy(active_token) /\ Expired /\ ~claim_enabled

(***************************************************************************)
(* C11.  The validity check accepts a token if and only if it is neither   *)
(* None nor empty, equals the stored token, and the age of the lease,      *)
(* now - last_hold_time, is at most the expiry duration: at an age of      *)
(* exactly the duration the token is accepted, at a greater age it is not. *)
(* hold and wipe go on to their write exactly for the tokens accepted.     *)
(***************************************************************************)
Accepted(t) ==
    /\ Truthy(t)
    /\ t = active_token
    /\ now - last_hold_time <= TOKEN_EXPIRY_DURATION

C11_ValidityCheck ==
    [][/\ \A t \in KnownTokens : (IsTokenValid(t) = "True") <=> Accepted(t)
       /\ \A c \in Callers, op \in {"hold", "wipe"} :
             (Calls(c, op) /\ Usable(op))
             => ((pc'[c] = op) <=> Accepted(Presented(c)))]_vars

\* A call presented the stored token, was let through to its write, and the
\* age of the lease is exactly the expiry duration: the token is still valid.
C11_Witness ==
    /\ \E c \in Callers :
          /\ pc[c] \in {"hold", "wipe"}
          /\ call[c].token = active_token
    /\ Truthy(active_token)
    /\ now - last_hold_time = TOKEN_EXPIRY_DURATION
    /\ IsTokenValid(active_token) = "True"

(***************************************************************************)
(* C12.  get_state() changes nothing of the stored state: the token,       *)
(* last_hold_time, claim_enabled, current_ssid and status are the same     *)
(* before and after the call.  When a token is stored and its age exceeds  *)
(* the expiry duration the view it returns reports no token and            *)
(* claim_enabled true, while the stored token and the stored flag stay.    *)
(***************************************************************************)
C12_SnapshotIsPure ==
    [][ret'.op = "get_state"
       => /\ UNCHANGED <<lease, periph, conn, now>>
          /\ (Truthy(active_token)
                /\ now - last_hold_time > TOKEN_EXPIRY_DURATION)
             => (/\ ret'.tok = None
                 /\ get_state.active_token = None
                 /\ get_state.claim_enabled
                 /\ get_state'.active_token = None
                 /\ get_state'.claim_enabled
                 /\ active_token' = active_token
                 /\ Truthy(active_token')
                 /\ claim_enabled' = claim_enabled)]_vars

\* get_state() has just returned while an expired token is stored with the
\* stored flag still false.
C12_Witness ==
    /\ ret.op = "get_state"
    /\ ret.tok = None
    /\ Truthy(active_token)
    /\ Expired
    /\ ~claim_enabled

(***************************************************************************)
(* C13.  As claimed: a claim that went on to its read and received a       *)
(* payload whose length is not 8 returns None and leaves the stored token, *)
(* last_hold_time and claim_enabled unchanged; a payload of exactly 8      *)
(* bytes is stored as the token, with last_hold_time = now and             *)
(* claim_enabled false.                                                    *)
(***************************************************************************)
ClaimStores(tok) ==
    /\ active_token' = tok
    /\ last_hold_time' = now
    /\ claim_enabled' = FALSE
    /\ ret'.out = "token"
    /\ ret'.tok = tok

ClaimDenied == ret'.out = "None" /\ UNCHANGED lease

C13_ExactLengthOnly ==
    [][\A c \in Callers, b \in ClaimPayloads :
          ClaimRead(c, b)
          => IF Len(b) = TOKEN_LENGTH /\ Decodable(b)
             THEN ClaimStores(Str(Decode(b)))
             ELSE ClaimDenied]_vars

(***************************************************************************)
(* C13, amended.  The payload is decoded as UTF-8 and stripped of leading  *)
(* and trailing whitespace before it is tested: when it does not decode,   *)
(* or the stripped text is empty or not 8 characters long, or the read     *)
(* fails, the claim returns None and leaves the stored token,              *)
(* last_hold_time and claim_enabled unchanged; otherwise the stripped text *)
(* is stored as the token, with last_hold_time = now and claim_enabled     *)
(* false, also when the payload itself is longer than 8 bytes.             *)
(***************************************************************************)
C13_StrippedLength ==
    [][\A c \in Callers :
          /\ \A b \in ClaimPayloads :
                ClaimRead(c, b)
                => IF Decodable(b) /\ Len(Strip(Decode(b))) = TOKEN_LENGTH
                   THEN ClaimStores(Str(Strip(Decode(b))))
                   ELSE ClaimDenied
          /\ ClaimFail(c) => ClaimDenied
          /\ (Completes(c, "claim") /\ ret'.out = "token")
             => (Len(active_token'.s) = TOKEN_LENGTH /\ ~claim_enabled')
          /\ (Completes(c, "claim") /\ ret'.out # "token")
             => UNCHANGED lease]_vars

\* A claim has just stored the token it read, at a time when last_hold_time had
\* to move.
C13_Witness ==
    /\ ret.op = "claim"
    /\ ret.out = "token"
    /\ ret.io
    /\ active_token = ret.tok
    /\ Len(active_token.s) = TOKEN_LENGTH
    /\ last_hold_time = now
    /\ now > StartTime
    /\ ~claim_enabled

(***************************************************************************)
(* C14.  As claimed: ssid(token, new_ssid, password) with a valid token    *)
(* writes `token` when new_ssid is not given, `token,new_ssid` when        *)
(* new_ssid is given and password is not, and `token,new_ssid,password`    *)
(* when both are given, an argument being given when it is not None.       *)
(***************************************************************************)
Given(v) == ~v.isNone

PayloadByFields(token, ssidGiven, new_ssid, passwordGiven, password) ==
    IF ~ssidGiven THEN token.s
    ELSE IF ~passwordGiven THEN token.s \o <<",">> \o new_ssid.s
    ELSE token.s \o <<",">> \o new_ssid.s \o <<",">> \o password.s

\* ssid(t, n, p) passed the validity gate and started its write in this step.
SsidWrites(c, t, n, p) == SsidCall(c, t, n, p) /\ pc'[c] = "ssid"

C14_PayloadByPresence ==
    [][\A c \in Callers, t \in PresentTokens, n \in SsidArgs,
          p \in PasswordArgs :
          SsidWrites(c, t, n, p)
          => call'[c].payload =
                Encode(PayloadByFields(t, Given(n), n, Given(p), p))]_vars

(***************************************************************************)
(* C14, amended.  An argument that is None or the empty string counts as   *)
(* absent.  ssid with a valid token writes `token` when new_ssid is        *)
(* absent, `token,new_ssid` when new_ssid is present and password is       *)
(* absent, and `token,new_ssid,password` when both are present; the        *)
(* payload always starts with the token, and it is the token alone when    *)
(* new_ssid is absent, whatever the password.                              *)
(***************************************************************************)
C14_PayloadByTruthiness ==
    [][\A c \in Callers, t \in PresentTokens, n \in SsidArgs,
          p \in PasswordArgs :
          SsidWrites(c, t, n, p)
          => /\ call'[c].payload =
                   Encode(PayloadByFields(t, Truthy(n), n, Truthy(p), p))
             /\ SubSeq(call'[c].payload, 1, Len(t.s)) = Encode(t.s)
             /\ ~Truthy(n) => call'[c].payload = Encode(t.s)]_vars

\* The write of `token,net1,pass1` with the stored, valid token is in flight.
C14_Witness ==
    \E c \in Callers :
       /\ pc[c] = "ssid"
       /\ Truthy(call[c].token)
       /\ call[c].token = active_token
       /\ call[c].payload =
             Encode(active_token.s \o <<",">> \o sNet1 \o <<",">> \o sPass1)

(***************************************************************************)
(* C15.  ssid applies the validity gate of hold and renews on success: on  *)
(* a connected service a call with a token that is not accepted (not the   *)
(* stored one, or the stored one past its expiry) returns False without a  *)
(* write and without changing last_hold_time; a call whose write is        *)
(* acknowledged sets last_hold_time to the current time and leaves the     *)
(* stored token and claim_enabled unchanged.                               *)
(***************************************************************************)
C15_SsidGateAndRenewal ==
    [][\A c \in Callers :
          /\ (/\ Calls(c, "ssid")
              /\ Usable("ssid_control")
              /\ ~Accepted(Presented(c)))
             => (/\ ret'.who = c
                 /\ ret'.op = "ssid"
                 /\ ret'.out = "False"
                 /\ ~ret'.io
                 /\ pc'[c] = "idle"
                 /\ last_hold_time' = last_hold_time)
          /\ (Completes(c, "ssid") /\ ret'.out = "True")
             => (/\ last_hold_time' = now
                 /\ UNCHANGED <<active_token, claim_enabled>>)]_vars

(***************************************************************************)
(* C16.  reset(), from any state, sets the stored token to None and        *)
(* claim_enabled to true, sets current_ssid and status back to "N/A" and   *)
(* "Idle", and performs no transport read or write: no call is started or  *)
(* completed and the connection is left as it was.                         *)
(***************************************************************************)
C16_ResetLocal ==
    [][Reset
       => /\ active_token' = None
          /\ claim_enabled' = TRUE
          /\ current_ssid' = sNA
          /\ status' = sIdle
          /\ ~ret'.io
          /\ UNCHANGED <<conn, pc, call>>]_vars

\* The service was reset while a hold of a claimed token awaited its write.
C16_Witness ==
    /\ \E c \in Callers : pc[c] = "hold" /\ Truthy(call[c].token)
    /\ active_token = None
    /\ claim_enabled
    /\ last_hold_time = 0
    /\ current_ssid = sNA
    /\ status = sIdle
    /\ client = "up"

(***************************************************************************)
(* C17.  A renewal never lands on a lease the caller does not hold: a      *)
(* hold, ssid or wipe that completes changes last_hold_time only if the    *)
(* token it presented is the stored token at that moment, whatever         *)
(* notification, reset or claim of another caller ran while it awaited     *)
(* its write.                                                              *)
(***************************************************************************)
C17_RenewalOnlyForHolder ==
    [][\A c \in Callers, op \in {"hold", "ssid", "wipe"} :
          (Completes(c, op) /\ last_hold_time' # last_hold_time)
          => (Truthy(active_token) /\ call[c].token = active_token)]_vars

(***************************************************************************)
(* C18.  wipe and ssid change the lease only on an acknowledged write: a   *)
(* call that passed the validity check and whose write fails returns       *)
(* False, and neither of its two steps changes the stored token,           *)
(* last_hold_time or claim_enabled; a step of wipe or ssid changes the     *)
(* lease only when it returns True after the write.                        *)
(***************************************************************************)
C18_AdvanceOnSuccessOnly ==
    [][\A c \in Callers, op \in {"wipe", "ssid"} :
          /\ (Calls(c, op) /\ pc'[c] = op) => UNCHANGED lease
          /\ WriteFail(c, op)
             => (ret'.out = "False" /\ ret'.io /\ UNCHANGED lease)
          /\ (Completes(c, op) /\ ret'.out = "False") => UNCHANGED lease
          /\ ((Calls(c, op) \/ Completes(c, op))
                /\ lease' # lease)
             => (Completes(c, op) /\ ret'.out = "True" /\ ret'.io)]_vars

\* A wipe of the stored, valid token has just failed at the transport: the
\* token is still stored and the lease has not been renewed.
C18_Witness ==
    /\ ret.op = "wipe"
    /\ ret.out = "False"
    /\ ret.io
    /\ ret.arg = active_token
    /\ Held
    /\ ~claim_enabled
    /\ last_hold_time < now

(***************************************************************************)
(* C19.  A claim, hold or wipe (ssid alike) cancelled while its transport  *)
(* call is in flight makes no local transition: the cancellation step      *)
(* leaves the stored token, last_hold_time and claim_enabled as they are,  *)
(* the step that started the transport call had not changed them either,   *)
(* and once cancelled the call is no longer in flight, so that no later    *)
(* step completes it.                                                      *)
(***************************************************************************)
C19_CancelledCallIsInert ==
    [][\A c \in Callers :
          /\ \A caught \in BOOLEAN :
                Cancel(c, caught)
                => (/\ UNCHANGED <<lease, periph>>
                    /\ pc'[c] = "idle"
                    /\ ret'.out # "True"
                    /\ ret'.out # "token")
          /\ \A op \in {"claim", "hold", "ssid", "wipe"} :
                /\ (Calls(c, op) /\ pc'[c] = op) => UNCHANGED lease
                /\ (ret.who = c /\ ret.out = "CancelledError")
                   => ~Completes(c, op)]_vars

\* A hold of the stored, valid token has just been cancelled during its write,
\* at a time when a renewal would have moved last_hold_time.
C19_Witness ==
    /\ ret.op = "hold"
    /\ ret.out = "CancelledError"
    /\ ret.io
    /\ ret.arg = active_token
    /\ Held
    /\ last_hold_time < now
    /\ pc[ret.who] = "idle"

(***************************************************************************)
(* C20.  Frame of the notification handlers.  A current-SSID notification  *)
(* changes current_ssid and nothing else.  A status notification changes   *)
(* status; when its text contains neither "Expired" nor "Reset" it changes *)
(* nothing else, and when it contains one of them it also sets the stored  *)
(* token to None and claim_enabled to true, whatever the lease was.        *)
(* last_hold_time, the connection and the calls in flight are untouched by *)
(* both.                                                                   *)
(***************************************************************************)
HasMarker(text) == Contains(sExpired, text) \/ Contains(sReset, text)

C20_NotificationFrame ==
    [][/\ \A data \in SsidPayloads :
             SsidNotify(data)
             => UNCHANGED <<lease, status, conn, now, pc, call>>
       /\ \A data \in StatusPayloadsOps :
             StatusNotify(data)
             => /\ UNCHANGED <<current_ssid, last_hold_time, conn, now, pc,
                               call>>
                /\ IF Decodable(data) /\ HasMarker(Strip(Decode(data)))
                   THEN /\ status' = Strip(Decode(data))
                        /\ active_token' = None
                        /\ claim_enabled' = TRUE
                   ELSE UNCHANGED <<active_token, claim_enabled>>]_vars

\* Both handlers have run: a current-SSID notification set current_ssid, and a
\* status notification with a marker cleared a lease under a write in flight.
C20_Witness ==
    /\ current_ssid = sNet1
    /\ HasMarker(status)
    /\ active_token = None
    /\ claim_enabled
    /\ last_hold_time >= StartTime
    /\ \E c \in Callers : pc[c] = "hold" /\ Truthy(call[c].token)

(***************************************************************************)
(* C21.  Subscription lifecycle.  A stop called on a connected service     *)
(* when no start has succeeded since the last stop that succeeded returns  *)
(* False without asking the transport to unsubscribe, and the handler      *)
(* attribute is absent; a stop that succeeds after a start that succeeded  *)
(* unsubscribes and clears the handler; a start that succeeds stores the   *)
(* handler, also after a stop.                                             *)
(***************************************************************************)
C21_SubscriptionLifecycle ==
    [][\A c \in Callers, ch \in NotifyChars :
          /\ (Calls(c, StopOp(ch)) /\ ch \notin started)
             => (/\ ret'.who = c
                 /\ ret'.op = StopOp(ch)
                 /\ ret'.out = "False"
                 /\ ~ret'.io
                 /\ pc'[c] = "idle"
                 /\ ch \notin handlers')
          /\ (Completes(c, StopOp(ch)) /\ ret'.out = "True")
             => (ch \notin handlers' /\ ch \notin notifying')
          /\ (Completes(c, StartOp(ch)) /\ ret'.out = "True")
             => (ch \in handlers' /\ ch \in notifying')]_vars

(***************************************************************************)
(* C22.  read_status and read_current_ssid never change the lease.  A read *)
(* that succeeds stores the text read (decoded and stripped) in its own    *)
(* field, status or current_ssid, leaves the other field alone and returns *)
(* that text.  When the characteristic is not flagged readable, the        *)
(* transport read fails or the bytes do not decode, the call returns       *)
(* "Error: Not readable" or "Error" and both fields stay as they were.     *)
(***************************************************************************)
C22_ReadsFrame ==
    [][\A c \in Callers, ch \in NotifyChars :
          /\ (Calls(c, ReadOp(ch)) \/ Completes(c, ReadOp(ch)))
             => UNCHANGED <<lease, conn>>
          /\ \A b \in ReadPayloads(ch) :
                (ReadOk(c, ch, b) /\ Decodable(b))
                => /\ ret'.out = "value"
                   /\ ret'.tok = Str(Strip(Decode(b)))
                   /\ IF ch = "status"
                      THEN status' = Strip(Decode(b))
                             /\ current_ssid' = current_ssid
                      ELSE current_ssid' = Strip(Decode(b))
                             /\ status' = status
          /\ (Calls(c, ReadOp(ch)) /\ Usable(ch) /\ <<ch, "read">> \notin props)
             => (/\ ret'.who = c
                 /\ ret'.out = "Error: Not readable"
                 /\ ~ret'.io
                 /\ UNCHANGED periph)
          /\ (Calls(c, ReadOp(ch)) /\ pc'[c] # "idle") => UNCHANGED periph
          /\ ReadFail(c, ch) => (ret'.out = "Error" /\ UNCHANGED periph)
          /\ (Completes(c, ReadOp(ch)) /\ ret'.out # "value")
             => (ret'.out = "Error" /\ UNCHANGED periph)]_vars

\* read_status() has just returned a text with a marker while a token is
\* stored: the text is the status, the lease is still there, and current_ssid
\* holds what a notification had set.
C22_Witness ==
    /\ ret.op = "read_status"
    /\ ret.out = "value"
    /\ status = ret.tok.s
    /\ HasMarker(status)
    /\ current_ssid = sNet1
    /\ Truthy(active_token)
    /\ ~claim_enabled

(***************************************************************************)
(* C23.  In every reachable state, after any sequence of claim, hold,      *)
(* ssid, wipe, notifications, reset and disconnect, the stored token is    *)
(* None exactly when the stored claim_enabled is true; a stored token is   *)
(* never the empty string.                                                 *)
(***************************************************************************)
C23_TokenIffFlag ==
    /\ (active_token = None) <=> claim_enabled
    /\ active_token # None => Truthy(active_token)

\* disconnect() has just reset the service while a hold of a claimed token
\* awaited its write.
C23_Witness ==
    /\ ret.op = "disconnect"
    /\ client = "none"
    /\ active_token = None
    /\ claim_enabled
    /\ \E c \in Callers : pc[c] = "hold" /\ Truthy(call[c].token)

(***************************************************************************)
(* C24.  Overlapping claims: a claim returns a token only when no valid    *)
(* lease is stored at that moment, so that of two claims of which the      *)
(* second started while the first awaited its read at most one returns a   *)
(* token for the same lease period.                                        *)
(***************************************************************************)
C24_OneClaimWins ==
    [][\A c \in Callers :
          (Completes(c, "claim") /\ ret'.out = "token") => ~Held]_vars

(***************************************************************************)
(* C25.  A caller that does not hold the lease cannot affect it: hold,     *)
(* ssid or wipe called with None, the empty string or a token that is not  *)
(* the stored one returns False without a transport write and leaves the   *)
(* stored token, last_hold_time and claim_enabled unchanged, also when the *)
(* stored token has expired.                                               *)
(***************************************************************************)
C25_NonHolderIsInert ==
    [][\A c \in Callers, op \in {"hold", "ssid", "wipe"} :
          (/\ Calls(c, op)
           /\ ~Truthy(Presented(c)) \/ Presented(c) # active_token)
          => (/\ ret'.who = c
              /\ ret'.op = op
              /\ ret'.out = "False"
              /\ ~ret'.io
              /\ pc'[c] = "idle"
              /\ call'[c] = NoCall
              /\ UNCHANGED lease)]_vars

\* ssid has just been refused for a token that is not the stored one, on a
\* connected service whose stored token has expired.
C25_Witness ==
    /\ ret.op = "ssid"
    /\ ret.out = "False"
    /\ ~ret.io
    /\ Truthy(ret.arg)
    /\ ret.arg # active_token
    /\ Truthy(active_token)
    /\ Expired
    /\ ~claim_enabled
    /\ Usable("ssid_control")

(***************************************************************************)
(* C26.  While the client is not connected or the characteristic of the    *)
(* operation was not discovered, claim returns None and hold, ssid and     *)
(* wipe return False at once, before any validity check: no transport read *)
(* or write is started and the stored token, last_hold_time and            *)
(* claim_enabled are unchanged, so an expired lease is not cleared and no  *)
(* exception is raised for it.                                             *)
(***************************************************************************)
CharOf(op) == IF op = "ssid" THEN "ssid_control" ELSE op

C26_NotConnectedReturnsEarly ==
    [][\A c \in Callers, op \in {"claim", "hold", "ssid", "wipe"} :
          (Calls(c, op) /\ ~Usable(CharOf(op)))
          => (/\ ret'.who = c
              /\ ret'.op = op
              /\ ret'.out = (IF op = "claim" THEN "None" ELSE "False")
              /\ ~ret'.io
              /\ pc'[c] = "idle"
              /\ call'[c] = NoCall
              /\ UNCHANGED lease)]_vars

\* hold has just been refused for the stored token, which has expired, on a
\* service whose link is down: the lease is still stored.
C26_Witness ==
    /\ ret.op = "hold"
    /\ ret.out = "False"
    /\ ~ret.io
    /\ client = "down"
    /\ Truthy(active_token)
    /\ ret.arg = active_token
    /\ Expired
    /\ ~claim_enabled

====
